---- MODULE Spec2Model ----
(***************************************************************************)
(* A model of the candidate consensus and selection engine of CHESS:       *)
(*   - database_utils/execution.py  : execute_sql, aggregate_sqls,         *)
(*                                    get_execution_status                 *)
(*   - workflow/sql_meta_info.py    : SQLMetaInfo (the candidate record)   *)
(*   - workflow/agents/...          : the tools GenerateUnitTest, Evaluate *)
(*                                    and ExecutionAccuracy, run through   *)
(*                                    Tool.__call__                        *)
(* Three specifications share the module:                                  *)
(*   SpecExec / FairSpecExec : one call of execute_sql and its worker      *)
(*   SpecCand                : one SQLMetaInfo and the reads of its        *)
(*                             properties                                  *)
(*   Spec                    : one task running through the tools          *)
(***************************************************************************)
EXTENDS Integers, Sequences, FiniteSets, TLC

(***************************************************************************)
(* Bounds of the model.                                                    *)
(***************************************************************************)
MaxFetch == 2
MaxReads == 3
MaxCand == 3
MaxTests == 1
MaxCalls == 2
MaxSampling == 1
MaxSynthSampling == 2

(***************************************************************************)
(* The database: what sqlite does with each query text.  A row is an       *)
(* opaque value (an integer); a query yields a list of rows, raises, or    *)
(* never terminates.                                                       *)
(***************************************************************************)
\* the row ceiling of a candidate's result cache
RowCeiling == 50000

\* The row list of qbig stands for a result of RowCeiling + 1 rows: the model
\* keeps three of them and their number apart.
BigRows == <<7, 8, 9>>

\* len(rows)
RowCount(rows) == IF rows = BigRows THEN RowCeiling + 1 ELSE Len(rows)

SQLS == {"q12", "q12s", "q21", "q112", "q3", "qdq", "qsq", "qempty", "", "qbig",
         "qerrA", "qerrB", "qhang"}

QueryKind(sql) ==
    CASE sql \in {"q12", "q12s", "q21", "q112", "q3", "qdq", "qsq", "qempty", "",
                  "qbig"} -> "rows"
      [] sql \in {"qerrA", "qerrB"} -> "error"
      [] OTHER -> "hang"

QueryRows(sql) ==
    CASE sql = "q12" -> <<1, 2>>
      [] sql = "q12s" -> <<1, 2>>
      [] sql = "q21" -> <<2, 1>>
      [] sql = "q112" -> <<1, 1, 2>>
      [] sql = "q3" -> <<3>>
      [] sql = "qdq" -> <<1, 2>>
      [] sql = "qsq" -> <<4, 4>>
      [] sql = "qbig" -> BigRows
      [] OTHER -> <<>>

\* str(e) of the exception sqlite raises for the query
QueryError(sql) ==
    CASE sql = "qerrA" -> "no such table: t"
      [] sql = "qerrB" -> "no such table: t"
      [] OTHER -> ""

\* len(sql)
SqlLen(sql) ==
    CASE sql = "q12" -> 16
      [] sql = "q12s" -> 9
      [] sql = "q21" -> 15
      [] sql = "q112" -> 15
      [] sql = "q3" -> 15
      [] sql = "qdq" -> 17
      [] sql = "qsq" -> 17
      [] sql = "qempty" -> 20
      [] sql = "" -> 0
      [] sql = "qerrA" -> 12
      [] sql = "qerrB" -> 14
      [] OTHER -> 30

(***************************************************************************)
(* Python values the executor hands around.                                *)
(***************************************************************************)
NoneVal == [t |-> "None", v |-> <<>>]
ListVal(rows) == [t |-> "list", v |-> rows]
RowVal(r) == [t |-> "row", v |-> <<r>>]

NoExc == [type |-> "", msg |-> ""]
Exc(type, msg) == [type |-> type, msg |-> msg]
TimeoutMsg == "SQL query execution exceeded the timeout"
ValueErrorMsg == "Invalid fetch argument"

Returned(val) == [kind |-> "return", value |-> val, exc |-> NoExc]
Raised(e) == [kind |-> "raise", value |-> NoneVal, exc |-> e]
NoOutcome == [kind |-> "none", value |-> NoneVal, exc |-> NoExc]

Min(a, b) == IF a < b THEN a ELSE b

\* cursor.fetchmany(n)
fetchmany(rows, n) == SubSeq(rows, 1, Min(n, Len(rows)))

Fetches ==
    {[mode |-> m, n |-> 0] : m \in {"all", "one", "random", "bogus"}}
        \cup {[mode |-> "int", n |-> k] : k \in 1..MaxFetch}

(***************************************************************************)
(* State.                                                                  *)
(***************************************************************************)
VARIABLES
    \* execute_sql: one call and its QueryThread
    ex_sql, ex_fetch, caller_pc, thread_state, thread_result,
    thread_exception, call_outcome,
    \* SQLMetaInfo: one candidate record and the reads of its properties
    c_sql, c_execution_result, c_execution_status, exec_count, reads,
    \* aggregate_sqls / self_consistency applied to one list of queries
    agg_sqls, agg_pc, agg_result, sc_result,
    \* one task: SystemState, the Evaluate tool's fields, the agent loop
    SQL_meta_infos, unit_tests, errors, execution_history,
    scores, comparison_matrix, last_evaluate, evaluation_results,
    agent, iterations, sampling_count,
    \* what the last runs of Revise, need_to_fix and GenerateUnitTest did
    last_revise, last_need_to_fix, last_generate_unit_test,
    \* compare_sqls applied to one pair of queries
    fn_predicted, fn_gold, fn_pc, fn_result,
    \* get_execution_status applied to the query and one supplied result
    fn_rows, fn_status,
    \* subprocess_sql_executor: one call, its worker process and the queue
    sp_sql, sp_pc, sp_process, sp_task, sp_queue, sp_outcome,
    \* async_llm_chain_call: one call, its call list and the result queue
    pool_request_count, pool_sampling_count, pool_fails, pool_pc,
    pool_call_list, pool_queue, pool_sorted, pool_outcome

execVars == <<ex_sql, ex_fetch, caller_pc, thread_state, thread_result,
              thread_exception, call_outcome>>

candVars == <<c_sql, c_execution_result, c_execution_status, exec_count, reads>>

aggVars == <<agg_sqls, agg_pc, agg_result, sc_result>>

taskVars == <<SQL_meta_infos, unit_tests, errors, execution_history,
              scores, comparison_matrix, last_evaluate, evaluation_results,
              agent, iterations, sampling_count,
              last_revise, last_need_to_fix, last_generate_unit_test>>

fnVars == <<fn_predicted, fn_gold, fn_pc, fn_result, fn_rows, fn_status>>

subVars == <<sp_sql, sp_pc, sp_process, sp_task, sp_queue, sp_outcome>>

poolVars == <<pool_request_count, pool_sampling_count, pool_fails, pool_pc,
              pool_call_list, pool_queue, pool_sorted, pool_outcome>>

vars == <<execVars, candVars, aggVars, taskVars, fnVars, subVars, poolVars>>

(***************************************************************************)
(* execute_sql (execution.py 20-53).                                       *)
(***************************************************************************)
\* What QueryThread.run leaves in (result, exception) for a query that ends:
\* the set of possible pairs (random.choice is a choice of the caller's).
QueryThread_run_results(sql, fetch) ==
    IF QueryKind(sql) = "error"
    THEN {<<NoneVal, Exc("OperationalError", QueryError(sql))>>}
    ELSE LET rows == QueryRows(sql) IN
         CASE fetch.mode = "all" -> {<<ListVal(rows), NoExc>>}
           [] fetch.mode = "one" ->
                {<<IF rows = <<>> THEN NoneVal ELSE RowVal(Head(rows)), NoExc>>}
           [] fetch.mode = "random" ->
                LET samples == fetchmany(rows, 10) IN
                IF samples = <<>>
                THEN {<<ListVal(<<>>), NoExc>>}
                ELSE {<<RowVal(samples[i]), NoExc>> : i \in 1..Len(samples)}
           [] fetch.mode = "int" -> {<<ListVal(fetchmany(rows, fetch.n)), NoExc>>}
           [] OTHER -> {<<NoneVal, Exc("ValueError", ValueErrorMsg)>>}

InitExecVars ==
    /\ ex_sql \in SQLS
    /\ ex_fetch \in Fetches
    /\ caller_pc = "start"
    /\ thread_state = "unstarted"
    /\ thread_result = NoneVal
    /\ thread_exception = NoExc
    /\ call_outcome = NoOutcome

\* query_thread = QueryThread(); query_thread.start()
execute_sql_start ==
    /\ caller_pc = "start"
    /\ caller_pc' = "joining"
    /\ thread_state' = "running"
    /\ UNCHANGED <<ex_sql, ex_fetch, thread_result, thread_exception, call_outcome>>
    /\ UNCHANGED <<candVars, aggVars, taskVars, fnVars, subVars, poolVars>>

\* QueryThread.run reaches its end: only a query that terminates lets it.
QueryThread_run ==
    /\ thread_state = "running"
    /\ QueryKind(ex_sql) # "hang"
    /\ \E p \in QueryThread_run_results(ex_sql, ex_fetch) :
          /\ thread_result' = p[1]
          /\ thread_exception' = p[2]
    /\ thread_state' = "finished"
    /\ UNCHANGED <<ex_sql, ex_fetch, caller_pc, call_outcome>>
    /\ UNCHANGED <<candVars, aggVars, taskVars, fnVars, subVars, poolVars>>

\* query_thread.join(timeout) returns: the thread has ended, or the (finite)
\* timeout has elapsed.
join_no_timeout == thread_state = "finished"
join_may_return == thread_state = "finished" \/ TRUE

query_thread_join ==
    /\ caller_pc = "joining"
    /\ join_may_return
    /\ caller_pc' = "check"
    /\ UNCHANGED <<ex_sql, ex_fetch, thread_state, thread_result,
                   thread_exception, call_outcome>>
    /\ UNCHANGED <<candVars, aggVars, taskVars, fnVars, subVars, poolVars>>

\* lines 48-53 without the re-raise of line 50-52
execute_sql_outcome_swallow(alive, result, exception) ==
    IF alive
    THEN Raised(Exc("TimeoutError", TimeoutMsg))
    ELSE Returned(result)

\* lines 48-53: is_alive() -> TimeoutError, exception -> re-raised, else result
execute_sql_outcome(alive, result, exception) ==
    IF alive
    THEN Raised(Exc("TimeoutError", TimeoutMsg))
    ELSE IF exception # NoExc THEN Raised(exception) ELSE Returned(result)

execute_sql_finish ==
    /\ caller_pc = "check"
    /\ caller_pc' = "done"
    /\ call_outcome' = execute_sql_outcome(thread_state = "running",
                                           thread_result, thread_exception)
    /\ UNCHANGED <<ex_sql, ex_fetch, thread_state, thread_result, thread_exception>>
    /\ UNCHANGED <<candVars, aggVars, taskVars, fnVars, subVars, poolVars>>

(***************************************************************************)
(* The executor as its callers see it: DatabaseManager().execute_sql(sql,  *)
(* fetch) with the default timeout.  A query that terminates ends within   *)
(* the timeout; one that never terminates is still running when the join   *)
(* times out.                                                              *)
(***************************************************************************)
execute_sql(sql, fetch) ==
    IF QueryKind(sql) = "hang"
    THEN {execute_sql_outcome(TRUE, NoneVal, NoExc)}
    ELSE {execute_sql_outcome(FALSE, p[1], p[2]) :
              p \in QueryThread_run_results(sql, fetch)}

FetchAll == [mode |-> "all", n |-> 0]

(***************************************************************************)
(* ExecutionStatus and get_execution_status (execution.py 269-306).        *)
(***************************************************************************)
SYNTACTICALLY_CORRECT == "SYNTACTICALLY_CORRECT"
EMPTY_RESULT == "EMPTY_RESULT"
SYNTACTICALLY_INCORRECT == "SYNTACTICALLY_INCORRECT"

LAZY_RESULT_TOKEN == [t |-> "lazy", v |-> <<>>]

\* Python's truth value of a result: None and [] are false.
Falsy(val) == val = NoneVal \/ val = ListVal(<<>>)

\* get_execution_status with `if execution_result is None` as its test
get_execution_status_only_none(sql, execution_result) ==
    IF execution_result = NoneVal
    THEN {[status |-> IF o.kind = "raise" THEN SYNTACTICALLY_INCORRECT
                      ELSE IF Falsy(o.value) THEN EMPTY_RESULT
                      ELSE SYNTACTICALLY_CORRECT,
           execs |-> 1] : o \in execute_sql(sql, FetchAll)}
    ELSE {[status |-> IF Falsy(execution_result) THEN EMPTY_RESULT
                      ELSE SYNTACTICALLY_CORRECT,
           execs |-> 0]}

\* get_execution_status(sql, execution_result): the possible
\* [status, execs]: the status returned and the number of execute_sql calls.
get_execution_status(sql, execution_result) ==
    IF Falsy(execution_result)
    THEN {[status |-> IF o.kind = "raise" THEN SYNTACTICALLY_INCORRECT
                      ELSE IF Falsy(o.value) THEN EMPTY_RESULT
                      ELSE SYNTACTICALLY_CORRECT,
           execs |-> 1] : o \in execute_sql(sql, FetchAll)}
    ELSE {[status |-> SYNTACTICALLY_CORRECT, execs |-> 0]}

(***************************************************************************)
(* SQLMetaInfo (sql_meta_info.py).                                         *)
(***************************************************************************)
\* _is_too_long(result)
_is_too_long(result) == RowCount(result.v) > RowCeiling

\* The execution_result setter: the new cache
execution_result_set(result) ==
    IF _is_too_long(result) THEN LAZY_RESULT_TOKEN ELSE result

\* The execution_result property on a record holding `cache`: the possible
\* [outcome, cache, execs]: what the read returns or raises, the cache it
\* leaves and the number of execute_sql calls it made.
execution_result_get(sql, cache) ==
    IF cache = ListVal(<<>>)
    THEN {[outcome |-> o,
           cache |-> IF o.kind = "return" THEN o.value ELSE cache,
           execs |-> 1] : o \in execute_sql(sql, FetchAll)}
    ELSE IF cache = LAZY_RESULT_TOKEN
    THEN {[outcome |-> o, cache |-> cache, execs |-> 1] :
              o \in execute_sql(sql, FetchAll)}
    ELSE {[outcome |-> Returned(cache), cache |-> cache, execs |-> 0]}

InitCandVars ==
    /\ c_sql \in SQLS
    /\ c_execution_result = ListVal(<<>>)
    /\ c_execution_status = "None"
    /\ exec_count = 0
    /\ reads = <<>>

\* x = candidate.execution_result
read_execution_result ==
    /\ Len(reads) < MaxReads
    /\ \E r \in execution_result_get(c_sql, c_execution_result) :
          /\ c_execution_result' = r.cache
          /\ exec_count' = exec_count + r.execs
          /\ reads' = Append(reads, [prop |-> "result", outcome |-> r.outcome,
                                     status |-> "None"])
    /\ UNCHANGED <<c_sql, c_execution_status>>
    /\ UNCHANGED <<execVars, aggVars, taskVars, fnVars, subVars, poolVars>>

\* candidate.execution_result = result, for the rows of the candidate's query
set_execution_result ==
    /\ Len(reads) < MaxReads
    /\ QueryKind(c_sql) = "rows"
    /\ c_execution_result' = execution_result_set(ListVal(QueryRows(c_sql)))
    /\ reads' = Append(reads, [prop |-> "set", outcome |-> NoOutcome,
                               status |-> "None"])
    /\ UNCHANGED <<c_sql, c_execution_status, exec_count>>
    /\ UNCHANGED <<execVars, aggVars, taskVars, fnVars, subVars, poolVars>>

\* x = candidate.execution_status
read_execution_status ==
    /\ Len(reads) < MaxReads
    /\ IF c_execution_status = "None"
       THEN \E g \in get_execution_status(c_sql, c_execution_result) :
               /\ c_execution_status' = g.status
               /\ exec_count' = exec_count + g.execs
               /\ reads' = Append(reads, [prop |-> "status", outcome |-> NoOutcome,
                                          status |-> g.status])
       ELSE /\ reads' = Append(reads, [prop |-> "status", outcome |-> NoOutcome,
                                       status |-> c_execution_status])
            /\ UNCHANGED <<c_execution_status, exec_count>>
    /\ UNCHANGED <<c_sql, c_execution_result>>
    /\ UNCHANGED <<execVars, aggVars, taskVars, fnVars, subVars, poolVars>>

(***************************************************************************)
(* Python dicts keep insertion order: a dict is a sequence of              *)
(* [key, members] entries; d[k].append(x), creating d[k] = [] first.       *)
(***************************************************************************)
HasKey(d, k) == \E c \in 1..Len(d) : d[c].key = k

dict_append(d, k, x) ==
    IF HasKey(d, k)
    THEN [c \in 1..Len(d) |->
             IF d[c].key = k
             THEN [key |-> k, members |-> Append(d[c].members, x)]
             ELSE d[c]]
    ELSE Append(d, [key |-> k, members |-> <<x>>])

\* max(d, key=lambda x: len(d[x])) and max(d.values(), key=len): the index of
\* the first entry of maximal length (0: the dict is empty, max raises).
max_by_len(d) ==
    IF d = <<>> THEN 0
    ELSE CHOOSE c \in 1..Len(d) :
            /\ \A e \in 1..Len(d) : Len(d[e].members) <= Len(d[c].members)
            /\ \A e \in 1..(c - 1) : Len(d[e].members) < Len(d[c].members)

Range(seq) == {seq[i] : i \in 1..Len(seq)}

(***************************************************************************)
(* validate_sql_query and aggregate_sqls (execution.py 216-267).           *)
(***************************************************************************)
max_returned_rows == 30

\* validate_sql_query(db_path, sql): fetches at most max_returned_rows rows
validate_sql_query(sql) ==
    LET o == CHOOSE x \in execute_sql(sql, [mode |-> "int", n |-> max_returned_rows]) : TRUE
    IN IF o.kind = "return"
       THEN [SQL |-> sql, RESULT |-> o.value.v, STATUS |-> "OK"]
       ELSE [SQL |-> sql, RESULT |-> <<>>, STATUS |-> "ERROR"]

\* the clusters after the first n results: key frozenset(rows), members the SQLs
RECURSIVE aggregate_clusters(_, _)
aggregate_clusters(sqls, n) ==
    IF n = 0 THEN <<>>
    ELSE LET prev == aggregate_clusters(sqls, n - 1)
             result == validate_sql_query(sqls[n])
         IN IF result.STATUS = "OK"
            THEN dict_append(prev, Range(result.RESULT), result.SQL)
            ELSE prev

\* min(cluster, key=len): the first member of minimal length
min_by_len_last(members) ==
    members[CHOOSE i \in 1..Len(members) :
               /\ \A j \in 1..Len(members) : SqlLen(members[i]) <= SqlLen(members[j])
               /\ \A j \in (i + 1)..Len(members) : SqlLen(members[i]) < SqlLen(members[j])]
min_by_len(members) ==
    members[CHOOSE i \in 1..Len(members) :
               /\ \A j \in 1..Len(members) : SqlLen(members[i]) <= SqlLen(members[j])
               /\ \A j \in 1..(i - 1) : SqlLen(members[j]) > SqlLen(members[i])]

\* aggregate_sqls(db_path, sqls) for a non-empty list
aggregate_sqls(sqls) ==
    LET clusters == aggregate_clusters(sqls, Len(sqls))
    IN IF clusters # <<>>
       THEN min_by_len(clusters[max_by_len(clusters)].members)
       ELSE sqls[1]


(***************************************************************************)
(* One task (SystemState) and the tools that work on it.                   *)
(*                                                                         *)
(* A candidate is its SQL text (the SQLMetaInfo built from it); the one    *)
(* entry that is no SQLMetaInfo is the plain string Evaluate stores for an *)
(* empty round.  state.SQL_meta_infos is a dict from round key to the list *)
(* of the round's candidates.                                              *)
(***************************************************************************)
RoundSQLS == {"q12", "q21", "q3", "qerrA"}
PLACEHOLDER == "SELECT * FROM table_name"

\* the model's answers to candidate generation: any list of candidates
CandLists == UNION {[1..n -> RoundSQLS] : n \in 0..MaxCand}

Key(tool, id) == [tool |-> tool, id |-> id]
NoKey == Key("", 0)

\* d[k] = v
dict_set(d, k, v) ==
    IF HasKey(d, k)
    THEN [c \in 1..Len(d) |-> IF d[c].key = k THEN [key |-> k, members |-> v] ELSE d[c]]
    ELSE Append(d, [key |-> k, members |-> v])

\* query.execution_result for an entry of a round: what the read returns or
\* raises (the database answers a query the same way at every read).
candidate_result(c) ==
    IF c = PLACEHOLDER
    THEN Raised(Exc("AttributeError", "'str' object has no attribute 'execution_result'"))
    ELSE (CHOOSE r \in execution_result_get(c, ListVal(<<>>)) : TRUE).outcome

\* Evaluate.execution_based_clustering (evaluate.py 185-202): the clusters
\* after the first n candidates.  The key is repr(result), which is the row list
\* itself (order and repetitions kept); a member is a position of the list.
RECURSIVE clusters_upto(_, _)
clusters_upto(cands, n) ==
    IF n = 0 THEN <<>>
    ELSE LET prev == clusters_upto(cands, n - 1)
             o == candidate_result(cands[n])
         IN IF o.kind = "raise" THEN prev ELSE dict_append(prev, o.value, n)

Evaluate_execution_based_clustering(candidate_queries) ==
    clusters_upto(candidate_queries, Len(candidate_queries))

\* GenerateUnitTest.execution_based_clustering (generate_unit_test.py 77-98):
\* the same loop; when nothing clustered, one cluster of all the candidates
\* keyed by the joined exception texts.
ExceptionsKey == [t |-> "str", v |-> <<>>]

GenerateUnitTest_execution_based_clustering(candidate_queries) ==
    LET clusters == clusters_upto(candidate_queries, Len(candidate_queries))
    IN IF clusters = <<>>
       THEN <<[key |-> ExceptionsKey,
               members |-> [i \in 1..Len(candidate_queries) |-> i]]>>
       ELSE clusters

\* Evaluate.self_consistency (evaluate.py 106-114): the position selected
\* (0: max() of an empty dict raises)
self_consistency(candidate_clusters) ==
    IF candidate_clusters = <<>> THEN 0
    ELSE candidate_clusters[max_by_len(candidate_clusters)].members[1]

SeqMax(seq) == CHOOSE m \in Range(seq) : \A x \in Range(seq) : x <= m
SetMin(S) == CHOOSE m \in S : \A x \in S : m <= x

\* Evaluate.pick_the_best_candidate (evaluate.py 137-154): the position
\* selected (0: max() of an empty dict raises).  `candidate in cluster` is
\* Python's ==, which for two SQLMetaInfo compares their fields.
pick_the_best_candidate_first(scs, candidates, candidate_clusters) ==
    IF max_by_len(candidate_clusters) = 0 THEN 0
    ELSE SetMin({i \in 1..Len(scs) : scs[i] = SeqMax(scs)})
pick_the_best_candidate(scs, candidates, candidate_clusters) ==
    LET largest_cluster == max_by_len(candidate_clusters)
        max_score == SeqMax(scs)
        best_candidates == {i \in 1..Len(scs) : scs[i] = max_score}
        in_largest(i) == \E m \in Range(candidate_clusters[largest_cluster].members) :
                            candidates[m] = candidates[i]
    IN IF largest_cluster = 0 THEN 0
       ELSE IF Cardinality(best_candidates) = 1 THEN SetMin(best_candidates)
       ELSE IF \E i \in best_candidates : in_largest(i)
            THEN SetMin({i \in best_candidates : in_largest(i)})
            ELSE SetMin(best_candidates)

RECURSIVE SumSeq(_)
SumSeq(seq) == IF seq = <<>> THEN 0 ELSE Head(seq) + SumSeq(Tail(seq))

\* evaluate.py 99: the column sums over the width of the first row
column_sums(matrix) ==
    [index \in 1..Len(matrix[1]) |->
        SumSeq([t \in 1..Len(matrix) |-> matrix[t][index]])]

\* One judging call's result as async_llm_chain_call hands it back: the parsed
\* {"scores": [...]} with one 0/1 per candidate, or None for a call that failed.
JudgeResults(n) ==
    {[ok |-> FALSE, scores |-> <<>>]} \cup {[ok |-> TRUE, scores |-> sc] : sc \in [1..n -> {0, 1}]}

\* the one-candidate test, made only where the unit-test list is empty
only_one_candidate_without_tests(target, ut) ==
    Len(target) = 1 /\ ut.set /\ Len(ut.tests) = 0

\* evaluate.py 50: len(target_SQL_meta_infos) == 1, tested before the unit
\* tests are read
only_one_candidate(target, ut) == Len(target) = 1

NoEvaluate ==
    [ran |-> FALSE, raised |-> FALSE, early |-> FALSE, SQL_id |-> NoKey,
     target |-> <<>>, unit_tests_read |-> FALSE, tests |-> <<>>,
     responses |-> <<>>, calls |-> 0, clusters |-> <<>>]

\* Evaluate._run (evaluate.py 25-103) on the state `infos`, `ut`, with the
\* judging results `resp` (one per unit test, read only where the calls are
\* issued): the run's record, the new SQL_meta_infos and the tool's fields.
Evaluate_run(infos, ut, resp, old_scores, old_matrix) ==
    IF infos = <<>>
    THEN [run |-> [NoEvaluate EXCEPT !.ran = TRUE, !.early = TRUE],
          infos |-> infos, scores |-> old_scores, matrix |-> old_matrix]
    ELSE
    LET last == infos[Len(infos)]
        target == last.members
        SQL_id == IF last.key.tool = "evaluate"
                  THEN Key("evaluate", last.key.id + 1)
                  ELSE Key("evaluate", 1)
        run0 == [NoEvaluate EXCEPT !.ran = TRUE, !.SQL_id = SQL_id, !.target = target]
        stored(members) == dict_set(infos, SQL_id, members)
    IN IF Len(target) = 0
       THEN [run |-> run0, infos |-> stored(<<PLACEHOLDER>>),
             scores |-> <<0>>, matrix |-> << <<0>> >>]
       ELSE IF only_one_candidate(target, ut)
       THEN [run |-> run0, infos |-> stored(<<target[1]>>),
             scores |-> <<1>>, matrix |-> << <<1>> >>]
       ELSE IF ~ut.set
       THEN \* state.unit_tests["unit_test_generation"]: KeyError
            [run |-> [run0 EXCEPT !.raised = TRUE], infos |-> stored(<<>>),
             scores |-> old_scores, matrix |-> old_matrix]
       ELSE IF Len(ut.tests) = 0
       THEN [run |-> [run0 EXCEPT !.unit_tests_read = TRUE],
             infos |-> stored(<<target[1]>>),
             scores |-> <<1>>, matrix |-> << <<1>> >>]
       ELSE
       LET candidates_clusters == Evaluate_execution_based_clustering(target)
           run1 == [run0 EXCEPT !.unit_tests_read = TRUE,
                                !.tests = ut.tests, !.responses = resp,
                                !.calls = Len(ut.tests),
                                !.clusters = candidates_clusters]
       IN IF \E t \in 1..Len(resp) : ~resp[t].ok
          THEN \* item["scores"] on None: TypeError
               [run |-> [run1 EXCEPT !.raised = TRUE], infos |-> stored(<<>>),
                scores |-> old_scores, matrix |-> old_matrix]
          ELSE
          LET matrix == [t \in 1..Len(resp) |-> resp[t].scores]
              scs == column_sums(matrix)
              best == pick_the_best_candidate(scs, target, candidates_clusters)
          IN IF best = 0
             THEN [run |-> [run1 EXCEPT !.raised = TRUE], infos |-> stored(<<>>),
                   scores |-> scs, matrix |-> matrix]
             ELSE [run |-> run1, infos |-> stored(<<target[best]>>),
                   scores |-> scs, matrix |-> matrix]

\* the judging results a run of Evaluate reads
Evaluate_responses(infos, ut) ==
    IF /\ infos # <<>>
       /\ Len(infos[Len(infos)].members) >= 1
       /\ ~only_one_candidate(infos[Len(infos)].members, ut)
       /\ ut.set
       /\ Len(ut.tests) > 0
    THEN [1..Len(ut.tests) -> JudgeResults(Len(infos[Len(infos)].members))]
    ELSE {<<>>}

\* Evaluate._get_updates (evaluate.py 204-212) raises: no round before the
\* last one, or an entry that is a str and has no .SQL
Evaluate_get_updates_raises(infos, run) ==
    \/ run.early
    \/ Len(infos) < 2
    \/ PLACEHOLDER \in Range(infos[Len(infos) - 1].members)
    \/ ~HasKey(infos, run.SQL_id)
    \/ LET sel == (CHOOSE e \in Range(infos) : e.key = run.SQL_id).members
       IN sel = <<>> \/ sel[1] = PLACEHOLDER


(***************************************************************************)
(* GenerateUnitTest._run (generate_unit_test.py 26-75).                    *)
(***************************************************************************)
HARD_CODES_TEST_CASES == <<"HARD">>

\* GenerateUnitTest.unit_test_count, handed to the prompt as UNIT_TEST_CAP; the
\* sampled answers of the model keep to it: none carries more tests
unit_test_count == MaxTests

\* the unit tests of one sampled answer: k model-written tests
ModelTests(k) == [i \in 1..k |-> "ut"]

\* One sampled call's result: the parsed {"unit_tests": [...]}, or None
SynthesisResults ==
    {[ok |-> FALSE, k |-> 0]} \cup {[ok |-> TRUE, k |-> k] : k \in 0..MaxTests}

RECURSIVE extend_all(_, _)
\* the list after the first n responses were extended into it
extend_all(responses, n) ==
    IF n = 0 THEN <<>>
    ELSE extend_all(responses, n - 1) \o ModelTests(responses[n].k)

\* the new value of state.unit_tests["unit_test_generation"], whether the run
\* raised, and the number of model calls issued
GenerateUnitTest_run(infos, ut, responses) ==
    IF infos = <<>>
    THEN [ut |-> ut, raised |-> FALSE, calls |-> 0]
    ELSE
    LET target == infos[Len(infos)].members
    IN IF Len(target) <= 1
       THEN [ut |-> [set |-> TRUE, tests |-> <<>>], raised |-> FALSE, calls |-> 0]
       ELSE IF Len(GenerateUnitTest_execution_based_clustering(target)) = 1
       THEN [ut |-> [set |-> TRUE, tests |-> <<>>], raised |-> FALSE, calls |-> 0]
       ELSE IF \E i \in 1..Len(responses) : ~responses[i].ok
       THEN \* response['unit_tests'] on None: TypeError at the first failed one
            LET f == SetMin({i \in 1..Len(responses) : ~responses[i].ok})
            IN [ut |-> [set |-> TRUE, tests |-> extend_all(responses, f - 1)],
                raised |-> TRUE, calls |-> Len(responses)]
       ELSE [ut |-> [set |-> TRUE,
                     tests |-> extend_all(responses, Len(responses))
                                  \o HARD_CODES_TEST_CASES],
             raised |-> FALSE, calls |-> Len(responses)]

GenerateUnitTest_responses(infos, n) ==
    IF /\ infos # <<>>
       /\ Len(infos[Len(infos)].members) >= 2
       /\ Len(GenerateUnitTest_execution_based_clustering(infos[Len(infos)].members)) > 1
    THEN [1..n -> SynthesisResults]
    ELSE {<<>>}

(***************************************************************************)
(* compare_sqls (execution.py 166-214) and ExecutionAccuracy._run          *)
(* (evaluation.py 18-64).                                                  *)
(***************************************************************************)
\* the task's ground-truth SQL
task_SQL == "q12"

\* _clean_sql: sql.replace('\n', ' ').replace('"', "'").strip("`.").  Of the
\* query texts of the model only qdq holds one of these characters: it quotes
\* a column name with double quotes; the result, qsq, selects the string
\* literal of that name instead of the column.
_clean_sql(sql) == IF sql = "qdq" THEN "qsq" ELSE sql

compare_sqls(predicted_sql, ground_truth_sql) ==
    LET p == CHOOSE o \in execute_sql(_clean_sql(predicted_sql), FetchAll) : TRUE
        g == CHOOSE o \in execute_sql(ground_truth_sql, FetchAll) : TRUE
    IN IF QueryKind(_clean_sql(predicted_sql)) = "hang"
       THEN [exec_res |-> "0", exec_err |-> "timeout"]
       ELSE IF p.kind = "raise"
       THEN [exec_res |-> "0", exec_err |-> p.exc.msg]
       ELSE IF QueryKind(ground_truth_sql) = "hang"
       THEN [exec_res |-> "0", exec_err |-> "timeout"]
       ELSE IF g.kind = "raise"
       THEN [exec_res |-> "0", exec_err |-> g.exc.msg]
       ELSE IF Range(p.value.v) = Range(g.value.v)
       THEN [exec_res |-> "1", exec_err |-> "--"]
       ELSE [exec_res |-> "0", exec_err |-> "incorrect answer"]

\* evaluation.py 29-56: the evaluation of one round
evaluation_result(entry) ==
    IF entry.members = <<>> \/ entry.members[1] = PLACEHOLDER
    THEN [key |-> entry.key, exec_res |-> "error", exec_err |-> "exception",
          PREDICTED_SQL |-> "--error--"]
    ELSE LET r == compare_sqls(entry.members[1], task_SQL)
         IN [key |-> entry.key, exec_res |-> r.exec_res, exec_err |-> r.exec_err,
             PREDICTED_SQL |-> entry.members[1]]

NoResult == [key |-> NoKey, exec_res |-> "None", exec_err |-> "", PREDICTED_SQL |-> ""]

\* evaluation.py 58-64: the last result whose exec_res is neither of the two
\* strings (exec_res is 1, 0 or "error": never one of them)
final_result(results) ==
    LET ok == {i \in 1..Len(results) :
                  results[i].exec_res \notin {"incorrect answer", "--"}}
    IN IF ok = {} THEN NoResult
       ELSE results[CHOOSE i \in ok : \A j \in ok : j <= i]

ExecutionAccuracy_run(infos) ==
    LET results == [i \in 1..Len(infos) |-> evaluation_result(infos[i])]
    IN [results |-> results, final_SQL |-> final_result(results)]

(***************************************************************************)
(* Tool.__call__ and Tool._log_run (tool.py 14-46): a run that raises is   *)
(* recorded in state.errors and logged with status "error"; a run that     *)
(* succeeds is logged with its updates, and nothing is logged when         *)
(* _get_updates raises (the exception leaves __call__).                    *)
(***************************************************************************)
Tool_errors(tool_name, raised) ==
    IF raised THEN errors \cup {tool_name} ELSE errors

Tool_log_run(tool_name, raised, updates_raise) ==
    IF raised
    THEN Append(execution_history, [tool_name |-> tool_name, status |-> "error"])
    ELSE IF updates_raise
    THEN execution_history
    ELSE Append(execution_history, [tool_name |-> tool_name, status |-> "success"])

(***************************************************************************)
(* Revise (revise.py).                                                     *)
(***************************************************************************)
\* SQL_meta_info.execution_status of an entry of a round that nobody read
\* before: the status, or "raise" for the entry that is a plain string
candidate_status(c) ==
    IF c = PLACEHOLDER THEN "raise"
    ELSE (CHOOSE r \in get_execution_status(c, ListVal(<<>>)) : TRUE).status

\* revise.py 44-49 and 118-125: the candidate is marked need_fixing
need_fixing_only_incorrect(c) == candidate_status(c) = SYNTACTICALLY_INCORRECT
need_fixing(c) == candidate_status(c) # SYNTACTICALLY_CORRECT

\* What one repair call hands back: None for a call that failed, or the
\* parsed {"refined_sql_query": text}.  "no sql" is an answer without a query.
RefinedTexts == {"q12", "qerrA", "no sql"}

ReviseResults ==
    {[ok |-> FALSE, text |-> ""]} \cup {[ok |-> TRUE, text |-> t] : t \in RefinedTexts}

\* "SELECT" in text, for the texts of the model
HasSELECT(text) == text \notin {"", "no sql"}

\* revise.py 79-95: refinement_response["refined_sql_query"] for a candidate
\* marked need_fixing whose call handed back r (None["..."] raises and the
\* except clause keeps the original)
refined_sql_query(original, r) ==
    IF r.ok /\ HasSELECT(r.text) THEN r.text ELSE original

\* the positions of `target` marked need_fixing, in order
RECURSIVE need_fixing_positions(_, _)
need_fixing_positions(target, n) ==
    IF n = 0 THEN <<>>
    ELSE IF need_fixing(target[n])
         THEN Append(need_fixing_positions(target, n - 1), n)
         ELSE need_fixing_positions(target, n - 1)

\* revise.py 51-63: the request lists Revise can build for the marked
\* positions: building a request reads the schema from the database and one
\* that fails is skipped (continue), so any sub-list of `marked` can result
RECURSIVE built_request_lists(_)
built_request_lists(marked) ==
    IF marked = <<>> THEN {<<>>}
    ELSE LET rest == built_request_lists(Tail(marked))
         IN rest \cup {<<Head(marked)>> \o r : r \in rest}

\* revise.py 77-100: the new round after the first n candidates, and for each
\* of them the position it got there (0: nothing was appended for it).  The
\* k-th marked candidate reads response[k] (index counts the marked
\* candidates met so far); past the end of the list the IndexError keeps the
\* original.
RECURSIVE revised_upto(_, _, _, _)
revised_upto(target, marked, response, n) ==
    IF n = 0 THEN [round |-> <<>>, stored |-> <<>>]
    ELSE LET prev == revised_upto(target, marked, response, n - 1)
             index == CHOOSE k \in 1..Len(marked) : marked[k] = n
             query == IF need_fixing(target[n])
                      THEN IF index > Len(response) THEN target[n]
                           ELSE refined_sql_query(target[n], response[index])
                      ELSE target[n]
         IN IF query # ""
            THEN [round |-> Append(prev.round, query),
                  stored |-> Append(prev.stored, Len(prev.round) + 1)]
            ELSE [round |-> prev.round, stored |-> Append(prev.stored, 0)]

NoRevise ==
    [ran |-> FALSE, raised |-> FALSE, early |-> FALSE, SQL_id |-> NoKey,
     target |-> <<>>, marked |-> <<>>, requests |-> <<>>, responses |-> <<>>,
     stored |-> <<>>]

\* Revise._run (revise.py 23-100) on the state `infos` with the requests
\* that could be built (resp.requests, positions of the round) and the repair
\* results (resp.response, one per request): the run's record and the new
\* SQL_meta_infos.
Revise_run(infos, resp) ==
    IF infos = <<>>
    THEN [run |-> [NoRevise EXCEPT !.ran = TRUE, !.early = TRUE], infos |-> infos]
    ELSE
    LET last == infos[Len(infos)]
        target == last.members
        SQL_id == IF last.key.tool = "revise"
                  THEN Key("revise", last.key.id + 1)
                  ELSE Key("revise", 1)
        run0 == [NoRevise EXCEPT !.ran = TRUE, !.SQL_id = SQL_id, !.target = target]
    IN IF PLACEHOLDER \in Range(target)
       THEN \* need_fixing cannot be set on a str: AttributeError in the
            \* except clause
            [run |-> [run0 EXCEPT !.raised = TRUE],
             infos |-> dict_set(infos, SQL_id, <<>>)]
       ELSE
       LET marked == need_fixing_positions(target, Len(target))
           new == revised_upto(target, marked, resp.response, Len(target))
       IN [run |-> [run0 EXCEPT !.marked = marked, !.requests = resp.requests,
                                !.responses = resp.response,
                                !.stored = new.stored],
           infos |-> dict_set(infos, SQL_id, new.round)]

\* the request lists a run of Revise can build and the repair results it
\* reads: one per request (with no request the call raises and response = [])
Revise_responses(infos) ==
    IF infos = <<>> \/ PLACEHOLDER \in Range(infos[Len(infos)].members)
    THEN {[requests |-> <<>>, response |-> <<>>]}
    ELSE LET target == infos[Len(infos)].members
         IN UNION {{[requests |-> b, response |-> a] : a \in [1..Len(b) -> ReviseResults]} :
                      b \in built_request_lists(need_fixing_positions(target, Len(target)))}

\* Revise.need_to_fix (revise.py 113-131): self.fixing and self.max_fixing
\* are set nowhere, so line 127 raises AttributeError; with no round at all
\* line 114 raises IndexError.
NoNeedToFix == [calls |-> 0, outcome |-> "none"]

Revise_need_to_fix(infos) ==
    IF infos = <<>> THEN "IndexError" ELSE "AttributeError"

NoGenerateUnitTest ==
    [ran |-> FALSE, raised |-> FALSE, calls |-> 0, target |-> <<>>,
     early |-> FALSE, responses |-> <<>>]

InitTaskVars ==
    /\ SQL_meta_infos = <<>>
    /\ unit_tests = [set |-> FALSE, tests |-> <<>>]
    /\ errors = {}
    /\ execution_history = <<>>
    /\ scores = <<>>
    /\ comparison_matrix = <<>>
    /\ last_evaluate = NoEvaluate
    /\ evaluation_results = [results |-> <<>>, final_SQL |-> NoResult]
    /\ agent = "candidate_generator"
    /\ iterations = 0
    /\ sampling_count \in 1..MaxSampling
    /\ last_revise = NoRevise
    /\ last_need_to_fix = NoNeedToFix
    /\ last_generate_unit_test = NoGenerateUnitTest

\* GenerateCandidate through Tool.__call__ (generate_candidate.py 30-81): the
\* round "generate_candidate" is set to the candidates the model returned.
generate_candidate ==
    /\ agent = "candidate_generator"
    /\ iterations < MaxCalls
    /\ \E cands \in CandLists :
          SQL_meta_infos' = dict_set(SQL_meta_infos, Key("generate_candidate", 0), cands)
    /\ errors' = Tool_errors("generate_candidate", FALSE)
    /\ execution_history' = Tool_log_run("generate_candidate", FALSE, FALSE)
    /\ iterations' = iterations + 1
    /\ UNCHANGED <<unit_tests, scores, comparison_matrix, last_evaluate,
                   evaluation_results, agent, sampling_count,
                   last_revise, last_need_to_fix, last_generate_unit_test>>
    /\ UNCHANGED <<execVars, candVars, aggVars, fnVars, subVars, poolVars>>

\* Revise through Tool.__call__; _get_updates (revise.py 133-146) finds the
\* two rounds it needs whenever the run stored one
revise ==
    /\ agent = "candidate_generator"
    /\ iterations < MaxCalls
    /\ \E resp \in Revise_responses(SQL_meta_infos) :
          LET r == Revise_run(SQL_meta_infos, resp)
          IN /\ SQL_meta_infos' = r.infos
             /\ last_revise' = r.run
             /\ errors' = Tool_errors("revise", r.run.raised)
             /\ execution_history' = Tool_log_run("revise", r.run.raised, r.run.early)
    /\ iterations' = iterations + 1
    /\ UNCHANGED <<unit_tests, scores, comparison_matrix, last_evaluate,
                   evaluation_results, agent, sampling_count,
                   last_need_to_fix, last_generate_unit_test>>
    /\ UNCHANGED <<execVars, candVars, aggVars, fnVars, subVars, poolVars>>

\* a call of Revise.need_to_fix(state)
need_to_fix ==
    /\ agent = "candidate_generator"
    /\ last_need_to_fix.calls < MaxCalls
    /\ last_need_to_fix' = [calls |-> last_need_to_fix.calls + 1,
                            outcome |-> Revise_need_to_fix(SQL_meta_infos)]
    /\ UNCHANGED <<SQL_meta_infos, unit_tests, errors, execution_history, scores,
                   comparison_matrix, last_evaluate, evaluation_results, agent,
                   iterations, sampling_count, last_revise,
                   last_generate_unit_test>>
    /\ UNCHANGED <<execVars, candVars, aggVars, fnVars, subVars, poolVars>>

\* GenerateUnitTest through Tool.__call__
generate_unit_test ==
    /\ agent = "unit_tester"
    /\ iterations < MaxCalls
    /\ \E responses \in GenerateUnitTest_responses(SQL_meta_infos, sampling_count) :
          LET r == GenerateUnitTest_run(SQL_meta_infos, unit_tests, responses)
          IN /\ unit_tests' = r.ut
             /\ last_generate_unit_test' =
                    [ran |-> TRUE, raised |-> r.raised, calls |-> r.calls,
                     target |-> IF SQL_meta_infos = <<>> THEN <<>>
                                ELSE SQL_meta_infos[Len(SQL_meta_infos)].members,
                     early |-> SQL_meta_infos = <<>>,
                     responses |-> responses]
             /\ errors' = Tool_errors("generate_unit_test", r.raised)
             /\ execution_history' = Tool_log_run("generate_unit_test", r.raised, FALSE)
    /\ iterations' = iterations + 1
    /\ UNCHANGED <<SQL_meta_infos, scores, comparison_matrix, last_evaluate,
                   evaluation_results, agent, sampling_count,
                   last_revise, last_need_to_fix>>
    /\ UNCHANGED <<execVars, candVars, aggVars, fnVars, subVars, poolVars>>

\* Evaluate through Tool.__call__
evaluate ==
    /\ agent = "unit_tester"
    /\ iterations < MaxCalls
    /\ \E resp \in Evaluate_responses(SQL_meta_infos, unit_tests) :
          LET r == Evaluate_run(SQL_meta_infos, unit_tests, resp, scores,
                                comparison_matrix)
          IN /\ SQL_meta_infos' = r.infos
             /\ scores' = r.scores
             /\ comparison_matrix' = r.matrix
             /\ last_evaluate' = r.run
             /\ errors' = Tool_errors("evaluate", r.run.raised)
             /\ execution_history' =
                    Tool_log_run("evaluate", r.run.raised,
                                 Evaluate_get_updates_raises(r.infos, r.run))
    /\ iterations' = iterations + 1
    /\ UNCHANGED <<unit_tests, evaluation_results, agent, sampling_count,
                   last_revise, last_need_to_fix, last_generate_unit_test>>
    /\ UNCHANGED <<execVars, candVars, aggVars, fnVars, subVars, poolVars>>

\* Agent.workout ends (agent.py 37-54): the agent answers DONE, or the loop
\* is exhausted; the team moves on to the next node (team_builder.py 27-37).
agent_done ==
    /\ agent \in {"candidate_generator", "unit_tester"}
    /\ agent' = IF agent = "candidate_generator" THEN "unit_tester" ELSE "evaluation"
    /\ iterations' = 0
    /\ UNCHANGED <<SQL_meta_infos, unit_tests, errors, execution_history, scores,
                   comparison_matrix, last_evaluate, evaluation_results,
                   sampling_count, last_revise, last_need_to_fix,
                   last_generate_unit_test>>
    /\ UNCHANGED <<execVars, candVars, aggVars, fnVars, subVars, poolVars>>

\* ExecutionAccuracy through Tool.__call__
evaluation ==
    /\ agent = "evaluation"
    /\ evaluation_results' = ExecutionAccuracy_run(SQL_meta_infos)
    /\ errors' = Tool_errors("evaluation", FALSE)
    /\ execution_history' = Tool_log_run("evaluation", FALSE, FALSE)
    /\ agent' = "done"
    /\ UNCHANGED <<SQL_meta_infos, unit_tests, scores, comparison_matrix,
                   last_evaluate, iterations, sampling_count,
                   last_revise, last_need_to_fix, last_generate_unit_test>>
    /\ UNCHANGED <<execVars, candVars, aggVars, fnVars, subVars, poolVars>>

(***************************************************************************)
(* aggregate_sqls and self_consistency applied to one list of queries.     *)
(***************************************************************************)
AggSQLS == RoundSQLS \cup {"qerrB", "q112", "q12s"}

InitAggVars ==
    /\ agg_sqls \in UNION {[1..n -> AggSQLS] : n \in 1..MaxCand}
    /\ agg_pc = "start"
    /\ agg_result = ""
    /\ sc_result = 0

\* sql = DatabaseManager().aggregate_sqls(sqls)
call_aggregate_sqls ==
    /\ agg_pc = "start"
    /\ agg_result' = aggregate_sqls(agg_sqls)
    /\ agg_pc' = "aggregated"
    /\ UNCHANGED <<agg_sqls, sc_result>>
    /\ UNCHANGED <<execVars, candVars, taskVars, fnVars, subVars, poolVars>>

\* self.self_consistency(self.execution_based_clustering(candidates))
call_self_consistency ==
    /\ agg_pc = "aggregated"
    /\ sc_result' = self_consistency(Evaluate_execution_based_clustering(agg_sqls))
    /\ agg_pc' = "done"
    /\ UNCHANGED <<agg_sqls, agg_result>>
    /\ UNCHANGED <<execVars, candVars, taskVars, fnVars, subVars, poolVars>>

(***************************************************************************)
(* compare_sqls applied to one pair of queries.                            *)
(***************************************************************************)
NoComparison == [exec_res |-> "None", exec_err |-> ""]

\* the execution_result argument: left out (None), or a list of rows
SuppliedResults == {NoneVal, ListVal(<<>>), ListVal(<<1, 2>>), ListVal(<<3>>)}

NoStatus == [status |-> "None", execs |-> 0]

InitFnVars ==
    /\ fn_predicted \in SQLS
    /\ fn_gold \in SQLS
    /\ fn_pc = "start"
    /\ fn_result = NoComparison
    /\ fn_rows \in SuppliedResults
    /\ fn_status = NoStatus

\* DatabaseManager().compare_sqls(predicted_sql=..., ground_truth_sql=...)
call_compare_sqls ==
    /\ fn_pc = "start"
    /\ fn_result' = compare_sqls(fn_predicted, fn_gold)
    /\ fn_pc' = "compared"
    /\ UNCHANGED <<fn_predicted, fn_gold, fn_rows, fn_status>>
    /\ UNCHANGED <<execVars, candVars, aggVars, taskVars, subVars, poolVars>>

\* DatabaseManager().get_execution_status(sql, execution_result)
call_get_execution_status ==
    /\ fn_pc = "start"
    /\ \E g \in get_execution_status(fn_predicted, fn_rows) : fn_status' = g
    /\ fn_pc' = "classified"
    /\ UNCHANGED <<fn_predicted, fn_gold, fn_result, fn_rows>>
    /\ UNCHANGED <<execVars, candVars, aggVars, taskVars, subVars, poolVars>>

(***************************************************************************)
(* subprocess_sql_executor (execution.py 97-122).  The worker process runs *)
(* task(): execute_sql, then queue.put.  A multiprocessing.Queue hands the *)
(* pickled item to a feeder thread that writes it into a pipe, and a       *)
(* process that has put items ends only when its feeder thread has written *)
(* them all; the caller reads the pipe only after process.join().          *)
(***************************************************************************)
SubprocessTimeoutMsg == "Execution timed out."
NoDataMsg == "No data returned from the process."

\* the pickled item fits into the pipe without a reader: not so for the rows
\* of qbig
PipeFits(item) == ~(item.kind = "return" /\ item.value = ListVal(BigRows))

InitSubVars ==
    /\ sp_sql \in SQLS
    /\ sp_pc = "start"
    /\ sp_process = "unstarted"
    /\ sp_task = "unstarted"
    /\ sp_queue = <<>>
    /\ sp_outcome = NoOutcome

\* process = Process(target=task, ...); process.start()
subprocess_start ==
    /\ sp_pc = "start"
    /\ sp_pc' = "joining"
    /\ sp_process' = "alive"
    /\ sp_task' = "executing"
    /\ UNCHANGED <<sp_sql, sp_queue, sp_outcome>>
    /\ UNCHANGED <<execVars, candVars, aggVars, taskVars, fnVars, poolVars>>

\* task(): execute_sql(db_path, sql, fetch) returns or raises
task_execute_sql ==
    /\ sp_process = "alive"
    /\ sp_task = "executing"
    /\ QueryKind(sp_sql) # "hang"
    /\ sp_task' = "executed"
    /\ UNCHANGED <<sp_sql, sp_pc, sp_process, sp_queue, sp_outcome>>
    /\ UNCHANGED <<execVars, candVars, aggVars, taskVars, fnVars, poolVars>>

\* task(): the outcome is put on the queue.  An item that fits the pipe is
\* written and the process ends; with a larger one the process stays blocked
\* on the write.
task_put ==
    /\ sp_process = "alive"
    /\ sp_task = "executed"
    /\ \E o \in execute_sql(sp_sql, FetchAll) :
          IF PipeFits(o)
          THEN /\ sp_queue' = Append(sp_queue, o)
               /\ sp_task' = "done"
               /\ sp_process' = "exited"
          ELSE /\ sp_task' = "blocked_on_put"
               /\ UNCHANGED <<sp_queue, sp_process>>
    /\ UNCHANGED <<sp_sql, sp_pc, sp_outcome>>
    /\ UNCHANGED <<execVars, candVars, aggVars, taskVars, fnVars, poolVars>>

\* task() on a query that never ends: the inner execute_sql raises its own
\* TimeoutError, which is put on the queue; the process then waits for the
\* QueryThread, which is not a daemon, and stays alive.
task_inner_timeout ==
    /\ sp_process = "alive"
    /\ sp_task = "executing"
    /\ QueryKind(sp_sql) = "hang"
    /\ sp_queue' = Append(sp_queue, CHOOSE o \in execute_sql(sp_sql, FetchAll) : TRUE)
    /\ sp_task' = "timed_out"
    /\ UNCHANGED <<sp_sql, sp_pc, sp_process, sp_outcome>>
    /\ UNCHANGED <<execVars, candVars, aggVars, taskVars, fnVars, poolVars>>

\* process.join(timeout) returns: the process has ended, or the timeout elapsed
process_join ==
    /\ sp_pc = "joining"
    /\ sp_pc' = "check"
    /\ UNCHANGED <<sp_sql, sp_process, sp_task, sp_queue, sp_outcome>>
    /\ UNCHANGED <<execVars, candVars, aggVars, taskVars, fnVars, poolVars>>

\* lines 109-122: the outcome of the call, given is_alive() and the queue
subprocess_sql_executor_outcome(alive, queue) ==
    IF alive
    THEN Raised(Exc("TimeoutError", SubprocessTimeoutMsg))
    ELSE IF queue = <<>>
    THEN Raised(Exc("Exception", NoDataMsg))
    ELSE queue[1]

subprocess_finish ==
    /\ sp_pc = "check"
    /\ sp_pc' = "done"
    /\ sp_outcome' = subprocess_sql_executor_outcome(sp_process = "alive", sp_queue)
    /\ sp_process' = IF sp_process = "alive" THEN "terminated" ELSE sp_process
    /\ sp_queue' = IF sp_process = "alive" THEN sp_queue ELSE Tail(sp_queue)
    /\ UNCHANGED <<sp_sql, sp_task>>
    /\ UNCHANGED <<execVars, candVars, aggVars, taskVars, fnVars, poolVars>>

(***************************************************************************)
(* async_llm_chain_call (llm/models.py 112-160) over                       *)
(* ordered_concurrent_function_calls (threading_utils.py 26-53): the call  *)
(* list holds sampling_count calls per request; every call runs in a       *)
(* thread of the pool, whose wrapper puts (thread_id, result) on a queue,  *)
(* or (thread_id, None) when the call raised; leaving the with-block waits *)
(* for all threads; the queue is then drained, sorted by thread_id and     *)
(* sliced into groups.                                                     *)
(***************************************************************************)
MaxRequests == 2
MaxPoolSampling == 2

MaxWorkersMsg == "max_workers must be greater than 0"

\* the parsed response of call_llm_chain for sample k of request r
Response(r, k) == [request |-> r, sample |-> k]

\* models.py 138-149: for request_id ... for _ in range(sampling_count)
build_call_list(request_count, sampling) ==
    [i \in 1..(request_count * sampling) |->
        [request |-> ((i - 1) \div sampling) + 1, sample |-> ((i - 1) % sampling) + 1]]

\* sorted(results, key=lambda x: x[0]) on items <<thread_id, result>>
RECURSIVE sorted_by_thread_id(_)
sorted_by_thread_id(items) ==
    IF items = <<>>
    THEN <<>>
    ELSE LET m == CHOOSE i \in 1..Len(items) :
                     \A j \in 1..Len(items) :
                         items[i][1] < items[j][1] \/ (items[i][1] = items[j][1] /\ i <= j)
         IN <<items[m]>> \o
            sorted_by_thread_id([j \in 1..(Len(items) - 1) |->
                                    IF j < m THEN items[j] ELSE items[j + 1]])

\* seq[a:b] of Python, 0-based, clipped to the sequence
PySlice(seq, a, b) == SubSeq(seq, Min(a, Len(seq)) + 1, Min(b, Len(seq)))

\* threading_utils.py 49-51
sorted_results(items) ==
    LET results == sorted_by_thread_id(items)
    IN [i \in 1..Len(results) |-> results[i][2]]

\* models.py 155-158
grouped_results(results, request_count, sampling) ==
    [i \in 1..request_count |-> PySlice(results, (i - 1) * sampling, i * sampling)]

InitPoolVars ==
    /\ pool_request_count \in 0..MaxRequests
    /\ pool_sampling_count \in 1..MaxPoolSampling
    /\ pool_fails \in SUBSET ((1..pool_request_count) \X (1..pool_sampling_count))
    /\ pool_pc = "start"
    /\ pool_call_list = <<>>
    /\ pool_queue = <<>>
    /\ pool_sorted = <<>>
    /\ pool_outcome = NoOutcome

\* models.py 136-149 and threading_utils.py 38-43: the call list is built,
\* ThreadPoolExecutor(max_workers=len(call_list)) is constructed (ValueError
\* for 0) and every call is submitted
async_llm_chain_call_submit ==
    /\ pool_pc = "start"
    /\ pool_call_list' = build_call_list(pool_request_count, pool_sampling_count)
    /\ IF Len(pool_call_list') = 0
       THEN /\ pool_pc' = "done"
            /\ pool_outcome' = Raised(Exc("ValueError", MaxWorkersMsg))
       ELSE /\ pool_pc' = "running"
            /\ pool_outcome' = pool_outcome
    /\ UNCHANGED <<pool_request_count, pool_sampling_count, pool_fails,
                   pool_queue, pool_sorted>>
    /\ UNCHANGED <<execVars, candVars, aggVars, taskVars, fnVars, subVars>>

\* threading_utils.py 17-23: one submitted call ends, in any order
wrapper ==
    /\ pool_pc = "running"
    /\ \E idx \in 0..(Len(pool_call_list) - 1) :
          /\ \A j \in 1..Len(pool_queue) : pool_queue[j][1] # idx
          /\ LET call == pool_call_list[idx + 1]
                 result == IF <<call.request, call.sample>> \in pool_fails
                           THEN NoneVal
                           ELSE Response(call.request, call.sample)
             IN pool_queue' = Append(pool_queue, <<idx, result>>)
    /\ UNCHANGED <<pool_request_count, pool_sampling_count, pool_fails, pool_pc,
                   pool_call_list, pool_sorted, pool_outcome>>
    /\ UNCHANGED <<execVars, candVars, aggVars, taskVars, fnVars, subVars>>

\* threading_utils.py 39 (the with-block ends when every thread has ended),
\* 45-53, models.py 155-160
async_llm_chain_call_collect ==
    /\ pool_pc = "running"
    /\ Len(pool_queue) = Len(pool_call_list)
    /\ pool_queue' = <<>>
    /\ pool_sorted' = sorted_results(pool_queue)
    /\ pool_outcome' = Returned(grouped_results(pool_sorted', pool_request_count,
                                                pool_sampling_count))
    /\ pool_pc' = "done"
    /\ UNCHANGED <<pool_request_count, pool_sampling_count, pool_fails,
                   pool_call_list>>
    /\ UNCHANGED <<execVars, candVars, aggVars, taskVars, fnVars, subVars>>

(***************************************************************************)
(* SQLMetaInfo.execution_result (sql_meta_info.py 25-38) on an empty       *)
(* cache, step by step: the getter calls execute_sql(self.SQL, "all") and, *)
(* when the call has ended, stores the returned value; an exception other  *)
(* than FunctionTimedOut (TimeoutError is one) leaves the getter before    *)
(* the store.  The worker thread of the call may still complete afterwards.*)
(***************************************************************************)
execution_result_stored_from_worker ==
    IF thread_state = "finished" /\ thread_exception = NoExc
    THEN thread_result
    ELSE c_execution_result

\* lines 28-34: result = execute_sql(...); self._execution_result = result
execution_result_stored ==
    IF call_outcome.kind = "return" THEN call_outcome.value ELSE c_execution_result

InitGetterVars ==
    /\ c_sql \in SQLS
    /\ c_execution_result = ListVal(<<>>)
    /\ c_execution_status = "None"
    /\ exec_count = 0
    /\ reads = <<>>
    /\ ex_sql = c_sql
    /\ ex_fetch = FetchAll
    /\ caller_pc = "start"
    /\ thread_state = "unstarted"
    /\ thread_result = NoneVal
    /\ thread_exception = NoExc
    /\ call_outcome = NoOutcome

\* the getter ends: it stores and returns the value, or the exception leaves it
execution_result_end ==
    /\ caller_pc = "done"
    /\ reads = <<>>
    /\ c_execution_result = ListVal(<<>>)
    /\ c_execution_result' = execution_result_stored
    /\ exec_count' = exec_count + 1
    /\ reads' = Append(reads, [prop |-> "result", outcome |-> call_outcome,
                               status |-> "None"])
    /\ UNCHANGED <<c_sql, c_execution_status>>
    /\ UNCHANGED <<execVars, aggVars, taskVars, fnVars, subVars, poolVars>>

(***************************************************************************)
(* The specifications.                                                     *)
(***************************************************************************)
IdleFnVars ==
    /\ fn_predicted = "q12"
    /\ fn_gold = "q12"
    /\ fn_pc = "idle"
    /\ fn_result = NoComparison
    /\ fn_rows = NoneVal
    /\ fn_status = NoStatus

IdleSubVars ==
    /\ sp_sql = "q12"
    /\ sp_pc = "idle"
    /\ sp_process = "unstarted"
    /\ sp_task = "unstarted"
    /\ sp_queue = <<>>
    /\ sp_outcome = NoOutcome

\* The state of a part of the program that a specification does not run.
IdlePoolVars ==
    /\ pool_request_count = 0
    /\ pool_sampling_count = 1
    /\ pool_fails = {}
    /\ pool_pc = "idle"
    /\ pool_call_list = <<>>
    /\ pool_queue = <<>>
    /\ pool_sorted = <<>>
    /\ pool_outcome = NoOutcome

IdleExecVars ==
    /\ ex_sql = "q12"
    /\ ex_fetch = [mode |-> "all", n |-> 0]
    /\ caller_pc = "idle"
    /\ thread_state = "unstarted"
    /\ thread_result = NoneVal
    /\ thread_exception = NoExc
    /\ call_outcome = NoOutcome

IdleCandVars ==
    /\ c_sql = "q12"
    /\ c_execution_result = ListVal(<<>>)
    /\ c_execution_status = "None"
    /\ exec_count = 0
    /\ reads = <<>>

IdleAggVars ==
    /\ agg_sqls = <<"q12">>
    /\ agg_pc = "idle"
    /\ agg_result = ""
    /\ sc_result = 0

IdleTaskVars ==
    /\ SQL_meta_infos = <<>>
    /\ unit_tests = [set |-> FALSE, tests |-> <<>>]
    /\ errors = {}
    /\ execution_history = <<>>
    /\ scores = <<>>
    /\ comparison_matrix = <<>>
    /\ last_evaluate = NoEvaluate
    /\ evaluation_results = [results |-> <<>>, final_SQL |-> NoResult]
    /\ agent = "idle"
    /\ iterations = 0
    /\ sampling_count = 1
    /\ last_revise = NoRevise
    /\ last_need_to_fix = NoNeedToFix
    /\ last_generate_unit_test = NoGenerateUnitTest

InitExec == InitExecVars /\ IdleCandVars /\ IdleAggVars /\ IdleTaskVars /\ IdleFnVars /\ IdleSubVars /\ IdlePoolVars

NextExec ==
    \/ execute_sql_start
    \/ QueryThread_run
    \/ query_thread_join
    \/ execute_sql_finish

SpecExec == InitExec /\ [][NextExec]_vars

\* The caller's own steps are always taken (it is a running thread of control and
\* the timeout is finite); nothing is assumed of the worker.
FairSpecExec ==
    /\ SpecExec
    /\ WF_vars(execute_sql_start)
    /\ WF_vars(query_thread_join)
    /\ WF_vars(execute_sql_finish)

InitCand == InitCandVars /\ IdleExecVars /\ IdleAggVars /\ IdleTaskVars /\ IdleFnVars /\ IdleSubVars /\ IdlePoolVars

NextCand ==
    \/ read_execution_result
    \/ read_execution_status
    \/ set_execution_result

SpecCand == InitCand /\ [][NextCand]_vars

InitAgg == InitAggVars /\ IdleExecVars /\ IdleCandVars /\ IdleTaskVars /\ IdleFnVars /\ IdleSubVars /\ IdlePoolVars

NextAgg ==
    \/ call_aggregate_sqls
    \/ call_self_consistency

SpecAgg == InitAgg /\ [][NextAgg]_vars

InitFn ==
    InitFnVars /\ IdleExecVars /\ IdleCandVars /\ IdleAggVars /\ IdleTaskVars /\ IdleSubVars /\ IdlePoolVars

NextFn ==
    \/ call_compare_sqls
    \/ call_get_execution_status

SpecFn == InitFn /\ [][NextFn]_vars

\* The task once GenerateCandidate has run, with any round it can leave
\* (empty and empty-result query texts included).
ReviseSQLS == {"q12", "qempty", "qerrA", ""}

InitReviseVars ==
    /\ \E cands \in UNION {[1..n -> ReviseSQLS] : n \in 0..MaxCand} :
          SQL_meta_infos = <<[key |-> Key("generate_candidate", 0), members |-> cands]>>
    /\ unit_tests = [set |-> FALSE, tests |-> <<>>]
    /\ errors = {}
    /\ execution_history = <<[tool_name |-> "generate_candidate", status |-> "success"]>>
    /\ scores = <<>>
    /\ comparison_matrix = <<>>
    /\ last_evaluate = NoEvaluate
    /\ evaluation_results = [results |-> <<>>, final_SQL |-> NoResult]
    /\ agent = "candidate_generator"
    /\ iterations = 1
    /\ sampling_count \in 1..MaxSampling
    /\ last_revise = NoRevise
    /\ last_need_to_fix = NoNeedToFix
    /\ last_generate_unit_test = NoGenerateUnitTest

InitRevise ==
    InitReviseVars /\ IdleExecVars /\ IdleCandVars /\ IdleAggVars /\ IdleFnVars /\ IdleSubVars /\ IdlePoolVars

NextRevise ==
    \/ revise
    \/ need_to_fix

SpecRevise == InitRevise /\ [][NextRevise]_vars

\* The task when the unit tester starts on the round GenerateCandidate left,
\* for every configured sampling_count of GenerateUnitTest.
InitSynthVars ==
    /\ \E cands \in UNION {[1..n -> RoundSQLS] : n \in 0..MaxCand} :
          SQL_meta_infos = <<[key |-> Key("generate_candidate", 0), members |-> cands]>>
    /\ unit_tests = [set |-> FALSE, tests |-> <<>>]
    /\ errors = {}
    /\ execution_history = <<[tool_name |-> "generate_candidate", status |-> "success"]>>
    /\ scores = <<>>
    /\ comparison_matrix = <<>>
    /\ last_evaluate = NoEvaluate
    /\ evaluation_results = [results |-> <<>>, final_SQL |-> NoResult]
    /\ agent = "unit_tester"
    /\ iterations = 0
    /\ sampling_count \in 1..MaxSynthSampling
    /\ last_revise = NoRevise
    /\ last_need_to_fix = NoNeedToFix
    /\ last_generate_unit_test = NoGenerateUnitTest

InitSynth ==
    InitSynthVars /\ IdleExecVars /\ IdleCandVars /\ IdleAggVars /\ IdleFnVars /\ IdleSubVars /\ IdlePoolVars

NextSynth ==
    \/ generate_unit_test

SpecSynth == InitSynth /\ [][NextSynth]_vars

\* the entry Tool._log_run appends for a run, as a sequence of 0 or 1 entries
Tool_run_log(tool_name, raised, updates_raise) ==
    IF raised THEN <<[tool_name |-> tool_name, status |-> "error"]>>
    ELSE IF updates_raise THEN <<>>
    ELSE <<[tool_name |-> tool_name, status |-> "success"]>>

\* The task later in the unit tester's loop: GenerateCandidate left a round of
\* two or more candidates, and the unit tester has called generate_unit_test
\* and evaluate on it.  `iterations` counts the calls made from here on.
InitScoreVars ==
    /\ \E cands \in UNION {[1..n -> RoundSQLS] : n \in 2..MaxCand} :
          LET infos0 == <<[key |-> Key("generate_candidate", 0), members |-> cands]>>
          IN \E responses \in GenerateUnitTest_responses(infos0, 1) :
                LET g == GenerateUnitTest_run(infos0, [set |-> FALSE, tests |-> <<>>],
                                              responses)
                IN \E resp \in Evaluate_responses(infos0, g.ut) :
                      LET e == Evaluate_run(infos0, g.ut, resp, <<>>, <<>>)
                      IN /\ SQL_meta_infos = e.infos
                         /\ unit_tests = g.ut
                         /\ scores = e.scores
                         /\ comparison_matrix = e.matrix
                         /\ last_evaluate = e.run
                         /\ last_generate_unit_test =
                                [ran |-> TRUE, raised |-> g.raised, calls |-> g.calls,
                                 target |-> cands, early |-> FALSE,
                                 responses |-> responses]
                         /\ errors = (IF g.raised THEN {"generate_unit_test"} ELSE {})
                                      \cup (IF e.run.raised THEN {"evaluate"} ELSE {})
                         /\ execution_history =
                                <<[tool_name |-> "generate_candidate", status |-> "success"]>>
                                \o Tool_run_log("generate_unit_test", g.raised, FALSE)
                                \o Tool_run_log("evaluate", e.run.raised,
                                                Evaluate_get_updates_raises(e.infos, e.run))
    /\ evaluation_results = [results |-> <<>>, final_SQL |-> NoResult]
    /\ agent = "unit_tester"
    /\ iterations = 0
    /\ sampling_count = 1
    /\ last_revise = NoRevise
    /\ last_need_to_fix = NoNeedToFix

InitScore ==
    InitScoreVars /\ IdleExecVars /\ IdleCandVars /\ IdleAggVars /\ IdleFnVars /\ IdleSubVars /\ IdlePoolVars

NextScore ==
    \/ generate_unit_test
    \/ evaluate

SpecScore == InitScore /\ [][NextScore]_vars

InitSub ==
    InitSubVars /\ IdleExecVars /\ IdleCandVars /\ IdleAggVars /\ IdleTaskVars /\ IdleFnVars /\ IdlePoolVars

NextSub ==
    \/ subprocess_start
    \/ task_execute_sql
    \/ task_put
    \/ task_inner_timeout
    \/ process_join
    \/ subprocess_finish

SpecSub == InitSub /\ [][NextSub]_vars

InitGetter == InitGetterVars /\ IdleAggVars /\ IdleTaskVars /\ IdleFnVars /\ IdleSubVars /\ IdlePoolVars

NextGetter ==
    \/ execute_sql_start
    \/ QueryThread_run
    \/ query_thread_join
    \/ execute_sql_finish
    \/ execution_result_end

SpecGetter == InitGetter /\ [][NextGetter]_vars

InitPool ==
    InitPoolVars /\ IdleExecVars /\ IdleCandVars /\ IdleAggVars /\ IdleTaskVars
        /\ IdleFnVars /\ IdleSubVars

NextPool ==
    \/ async_llm_chain_call_submit
    \/ wrapper
    \/ async_llm_chain_call_collect

SpecPool == InitPool /\ [][NextPool]_vars

Init == InitTaskVars /\ IdleExecVars /\ IdleCandVars /\ IdleAggVars /\ IdleFnVars /\ IdleSubVars /\ IdlePoolVars

Next ==
    \/ generate_candidate
    \/ revise
    \/ generate_unit_test
    \/ evaluate
    \/ agent_done
    \/ evaluation

Spec == Init /\ [][Next]_vars

(***************************************************************************)
(* C1: execute_sql never blocks its caller indefinitely: every call ends,  *)
(* a call that finds its worker still running once the join has timed out  *)
(* raises TimeoutError, and so does every call of a query that never       *)
(* terminates.                                                             *)
(***************************************************************************)
IsTimeoutError(o) == o.kind = "raise" /\ o.exc.type = "TimeoutError"

C1_NeverBlocks ==
    /\ (caller_pc = "start") ~> (caller_pc = "done")
    /\ [][(caller_pc = "check" /\ thread_state = "running" /\ caller_pc' = "done")
            => IsTimeoutError(call_outcome')]_vars
    /\ [](caller_pc = "done" /\ QueryKind(ex_sql) = "hang"
            => IsTimeoutError(call_outcome))

C1_Witness ==
    /\ caller_pc = "done"
    /\ QueryKind(ex_sql) = "hang"
    /\ thread_state = "running"
    /\ IsTimeoutError(call_outcome)

(***************************************************************************)
(* C2: reading execution_result twice returns the same value and executes  *)
(* the query exactly once, for every result within the row ceiling, a      *)
(* legitimately empty row list included.                                   *)
(***************************************************************************)
OnlyResultReads == \A i \in 1..Len(reads) : reads[i].prop = "result"

C2_ResultReadTwice ==
    (QueryKind(c_sql) = "rows" /\ ~_is_too_long(ListVal(QueryRows(c_sql)))
       /\ Len(reads) >= 2 /\ OnlyResultReads)
        => /\ \A i, j \in 1..Len(reads) : reads[i].outcome = reads[j].outcome
           /\ exec_count = 1

(***************************************************************************)
(* C3: for a candidate whose query returns a non-empty result, no sequence *)
(* of reads of execution_status and execution_result invokes the executor  *)
(* more than once in total.                                                *)
(***************************************************************************)
C3_AtMostOneExecution ==
    (QueryKind(c_sql) = "rows" /\ QueryRows(c_sql) # <<>>
       /\ ~_is_too_long(ListVal(QueryRows(c_sql)))) => exec_count <= 1

(***************************************************************************)
(* Clusters as sets of positions of a candidate list, for a given notion   *)
(* of "same outcome", and the selections made from them.                   *)
(***************************************************************************)
\* both queries return rows and the rows are equal as sets
SameRowSet(a, b) ==
    /\ candidate_result(a).kind = "return"
    /\ candidate_result(b).kind = "return"
    /\ Range(candidate_result(a).value.v) = Range(candidate_result(b).value.v)

\* both queries return the same row list
SameRowList(a, b) ==
    /\ candidate_result(a).kind = "return"
    /\ candidate_result(b).kind = "return"
    /\ candidate_result(a).value.v = candidate_result(b).value.v

\* both queries raise the same error text
SameError(a, b) ==
    /\ candidate_result(a).kind = "raise"
    /\ candidate_result(b).kind = "raise"
    /\ candidate_result(a).exc.msg = candidate_result(b).exc.msg

Executes(c) == candidate_result(c).kind = "return"

ClusteredTogether(clusters, i, j) ==
    \E c \in 1..Len(clusters) : {i, j} \subseteq Range(clusters[c].members)

\* scoring got as far as clustering its round and issuing the judging calls
ScoringRan == last_evaluate.ran /\ last_evaluate.calls > 0

\* the round the last run of Evaluate stored
StoredRound ==
    IF HasKey(SQL_meta_infos, last_evaluate.SQL_id)
    THEN (CHOOSE e \in Range(SQL_meta_infos) : e.key = last_evaluate.SQL_id).members
    ELSE <<>>

(***************************************************************************)
(* C4: any two candidates of one round whose row lists are equal as sets   *)
(* (row order and repetitions ignored) are placed in the same cluster by   *)
(* the cluster builder of the scoring round.                               *)
(***************************************************************************)
C4_SameSetSameCluster ==
    ScoringRan =>
        \A i, j \in 1..Len(last_evaluate.target) :
            SameRowSet(last_evaluate.target[i], last_evaluate.target[j])
                => ClusteredTogether(last_evaluate.clusters, i, j)

(***************************************************************************)
(* C5: in one clustering pass every supplied candidate is a member of      *)
(* exactly one cluster, members are in supply order, and two candidates    *)
(* raising the same error text share a cluster, also when other candidates *)
(* executed.                                                               *)
(***************************************************************************)
C5_EveryCandidateClustered ==
    ScoringRan =>
        LET target == last_evaluate.target
            clusters == last_evaluate.clusters
        IN /\ \A i \in 1..Len(target) :
                 Cardinality({c \in 1..Len(clusters) :
                                 i \in Range(clusters[c].members)}) = 1
           /\ \A c \in 1..Len(clusters) :
                 \A a, b \in 1..Len(clusters[c].members) :
                     a < b => clusters[c].members[a] < clusters[c].members[b]
           /\ \A i, j \in 1..Len(target) :
                 SameError(target[i], target[j]) => ClusteredTogether(clusters, i, j)

(***************************************************************************)
(* Selection from clusters given as an equivalence Same(_, _) over the     *)
(* positions P of a candidate list.                                        *)
(***************************************************************************)
ClusterOf(cands, P, Same(_, _), i) == {j \in P : Same(cands[i], cands[j])}

\* i opens the first-seen cluster among those of maximal size
OpensLargest(cands, P, Same(_, _), i) ==
    /\ i \in P
    /\ i = SetMin(ClusterOf(cands, P, Same, i))
    /\ \A j \in P : Cardinality(ClusterOf(cands, P, Same, j))
                       <= Cardinality(ClusterOf(cands, P, Same, i))
    /\ \A j \in P : Cardinality(ClusterOf(cands, P, Same, j))
                       = Cardinality(ClusterOf(cands, P, Same, i))
                    => i <= SetMin(ClusterOf(cands, P, Same, j))

\* i is the first-seen member of shortest text among the positions C
ShortestIn(cands, C, i) ==
    /\ i \in C
    /\ \A j \in C : SqlLen(cands[i]) <= SqlLen(cands[j])
    /\ \A j \in C : j < i => SqlLen(cands[j]) > SqlLen(cands[i])

\* the cluster builder's equivalence as the claims describe it: equal row
\* sets, or the same error text
SameOutcome(a, b) == SameRowSet(a, b) \/ SameError(a, b)

\* the majority-consensus candidate: the first-seen shortest member of the
\* first-seen largest cluster
IsMajorityConsensus(cands, sql) ==
    LET P == 1..Len(cands)
    IN \E i \in P :
          /\ OpensLargest(cands, P, SameOutcome, i)
          /\ \E m \in P : /\ ShortestIn(cands, ClusterOf(cands, P, SameOutcome, i), m)
                          /\ sql = cands[m]

ExecutingPositions(cands) == {i \in 1..Len(cands) : Executes(cands[i])}

AllJudged == \A t \in 1..Len(last_evaluate.responses) : last_evaluate.responses[t].ok

MaxTotal(i) == \A j \in 1..Len(scores) : scores[j] <= scores[i]

LargestCluster == last_evaluate.clusters[max_by_len(last_evaluate.clusters)].members

C8_NoTestsMajority ==
    (last_evaluate.ran /\ Len(last_evaluate.target) >= 2
       /\ last_evaluate.unit_tests_read /\ last_evaluate.tests = <<>>) =>
        /\ last_evaluate.calls = 0
        /\ Len(StoredRound) = 1
        /\ \E i \in 1..Len(last_evaluate.target) :
              /\ OpensLargest(last_evaluate.target, 1..Len(last_evaluate.target),
                              SameOutcome, i)
              /\ StoredRound[1] = last_evaluate.target[i]

(***************************************************************************)
(* C9: if judging calls of a scoring round fail, scoring does not abort:   *)
(* a failed test contributes a row of zeros, the other tests' scores are   *)
(* summed, and a best candidate is selected and stored as the round's      *)
(* result.                                                                 *)
(***************************************************************************)
C9_FailedJudgeAbsorbed ==
    (ScoringRan /\ ~AllJudged) =>
        LET target == last_evaluate.target
            resp == last_evaluate.responses
        IN /\ ~last_evaluate.raised
           /\ "evaluate" \notin errors
           /\ Len(scores) = Len(target)
           /\ \A i \in 1..Len(target) :
                 scores[i] = Cardinality({t \in 1..Len(resp) :
                                             resp[t].ok /\ resp[t].scores[i] = 1})
           /\ Len(StoredRound) = 1
           /\ \E i \in 1..Len(target) : MaxTotal(i) /\ StoredRound[1] = target[i]

(***************************************************************************)
(* C10: if test synthesis or scoring raises while at least one candidate   *)
(* exists, the stage records a failure and the task still ends with a      *)
(* final SQL equal to the majority-consensus candidate; the final result   *)
(* is an error only when no candidate exists at all.                       *)
(***************************************************************************)
GeneratedCandidates ==
    IF HasKey(SQL_meta_infos, Key("generate_candidate", 0))
    THEN (CHOOSE e \in Range(SQL_meta_infos) :
             e.key = Key("generate_candidate", 0)).members
    ELSE <<>>

StageRaised(tool_name) ==
    \E h \in 1..Len(execution_history) :
        /\ execution_history[h].tool_name = tool_name
        /\ execution_history[h].status = "error"

C10_FallsBackToMajority ==
    (agent = "done" /\ GeneratedCandidates # <<>>) =>
        /\ (StageRaised("generate_unit_test") \/ StageRaised("evaluate")) =>
              /\ errors \cap {"generate_unit_test", "evaluate"} # {}
              /\ IsMajorityConsensus(GeneratedCandidates,
                                     evaluation_results.final_SQL.PREDICTED_SQL)
        /\ evaluation_results.final_SQL.exec_res # "error"

(***************************************************************************)
(* C11: compare_sqls(predicted, gold) returns exec_res 1 with exec_err     *)
(* "--" exactly when both queries execute and their rows are equal as      *)
(* sets; exec_res 0 with "timeout" when the comparison times out, with the *)
(* error message on any other execution error, and with "incorrect answer" *)
(* when both execute and the sets differ; nothing else is produced.        *)
(***************************************************************************)
\* the comparison times out: the first query hangs, or it returns and the
\* second hangs
ComparisonTimesOut(predicted, gold) ==
    \/ QueryKind(predicted) = "hang"
    \/ QueryKind(predicted) = "rows" /\ QueryKind(gold) = "hang"

\* the message of the first execution error of the comparison
ComparisonError(predicted, gold) ==
    IF QueryKind(predicted) = "error" THEN QueryError(predicted) ELSE QueryError(gold)

C11_CompareOutcomes ==
    fn_pc = "compared" =>
        IF ComparisonTimesOut(fn_predicted, fn_gold)
        THEN fn_result = [exec_res |-> "0", exec_err |-> "timeout"]
        ELSE IF QueryKind(fn_predicted) = "error" \/ QueryKind(fn_gold) = "error"
        THEN fn_result = [exec_res |-> "0",
                          exec_err |-> ComparisonError(fn_predicted, fn_gold)]
        ELSE IF Range(QueryRows(fn_predicted)) = Range(QueryRows(fn_gold))
        THEN fn_result = [exec_res |-> "1", exec_err |-> "--"]
        ELSE fn_result = [exec_res |-> "0", exec_err |-> "incorrect answer"]

(***************************************************************************)
(* The repair step as its record shows it.                                 *)
(***************************************************************************)
RepairRan == last_revise.ran /\ ~last_revise.early /\ ~last_revise.raised

\* the round the last run of Revise stored
RevisedRound ==
    IF HasKey(SQL_meta_infos, last_revise.SQL_id)
    THEN (CHOOSE e \in Range(SQL_meta_infos) : e.key = last_revise.SQL_id).members
    ELSE <<>>

Marked(i) == i \in Range(last_revise.marked)

\* a repair request was built and sent for candidate i
Requested(i) == i \in Range(last_revise.requests)

\* the query executes and returns at least one row
ReturnsRows(sql) == QueryKind(sql) = "rows" /\ QueryRows(sql) # <<>>

\* the answer of the repair call issued for the marked candidate i
RepairAnswer(i) ==
    last_revise.responses[CHOOSE k \in 1..Len(last_revise.requests) :
                              last_revise.requests[k] = i]

\* the SQL the repair leaves for the marked candidate i
RepairedSQL(i) ==
    IF Requested(i) /\ RepairAnswer(i).ok /\ HasSELECT(RepairAnswer(i).text)
    THEN RepairAnswer(i).text
    ELSE last_revise.target[i]

HeldAt(i, sql) ==
    /\ last_revise.stored[i] \in 1..Len(RevisedRound)
    /\ RevisedRound[last_revise.stored[i]] = sql

C13_RefinedOrOriginal ==
    RepairRan =>
        \A i \in 1..Len(last_revise.target) :
            Marked(i) => HeldAt(i, RepairedSQL(i))

(***************************************************************************)
(* C14: the repair loop is bounded: need_to_fix answers true at most       *)
(* max_fixing times and false once the bound is reached, and the agent     *)
(* loop ends after at most the maximum number of iterations.               *)
(***************************************************************************)
C14_RepairLoopBounded ==
    /\ last_need_to_fix.calls > 0 => last_need_to_fix.outcome \in {"True", "False"}
    /\ iterations <= MaxCalls

(***************************************************************************)
(* Test synthesis as its record shows it.                                  *)
(***************************************************************************)
\* GenerateUnitTest ran on a round
SynthesisRan == last_generate_unit_test.ran /\ ~last_generate_unit_test.early

\* the round has two or more candidates and their executions do not all have
\* the same outcome (row set, or error text)
SeveralClusters(target) ==
    /\ Len(target) >= 2
    /\ \E i, j \in 1..Len(target) : ~SameOutcome(target[i], target[j])

NoUnitTests == [set |-> TRUE, tests |-> <<>>]

(***************************************************************************)
(* C15: test synthesis issues a model call only when the round has two or  *)
(* more candidates whose executions form more than one cluster; with zero  *)
(* or one candidate, or with all candidates in a single cluster, it issues *)
(* no model call and stores an empty unit-test list.                       *)
(***************************************************************************)
C15_CallOnlyForSeveralClusters ==
    SynthesisRan =>
        /\ last_generate_unit_test.calls > 0 =>
              SeveralClusters(last_generate_unit_test.target)
        /\ ~SeveralClusters(last_generate_unit_test.target) =>
              /\ last_generate_unit_test.calls = 0
              /\ unit_tests = NoUnitTests

(***************************************************************************)
(* C16: whenever test synthesis issues its model calls, the stored         *)
(* unit-test list ends with the fixed sentinel test, whatever each sampled *)
(* call returns.                                                           *)
(***************************************************************************)
C16_SentinelLast ==
    (SynthesisRan /\ last_generate_unit_test.calls > 0) =>
        /\ unit_tests.set
        /\ unit_tests.tests # <<>>
        /\ unit_tests.tests[Len(unit_tests.tests)] = HARD_CODES_TEST_CASES[1]

(***************************************************************************)
(* C17: after test synthesis the stored unit-test list holds at most       *)
(* unit_test_count model-generated tests plus the one sentinel, for every  *)
(* model output and every sampling_count.                                  *)
(***************************************************************************)
C17_AtMostCapTests ==
    SynthesisRan =>
        /\ Cardinality({i \in 1..Len(unit_tests.tests) :
                           unit_tests.tests[i] # HARD_CODES_TEST_CASES[1]})
              <= unit_test_count
        /\ Cardinality({i \in 1..Len(unit_tests.tests) :
                           unit_tests.tests[i] = HARD_CODES_TEST_CASES[1]}) <= 1

\* a sampled call of the last synthesis failed
SynthesisFailed ==
    /\ SynthesisRan
    /\ last_generate_unit_test.calls > 0
    /\ \E k \in 1..Len(last_generate_unit_test.responses) :
          ~last_generate_unit_test.responses[k].ok

\* Evaluate scored the round of the failed synthesis with the list it left
ScoredAfterSynthesis ==
    /\ last_evaluate.ran
    /\ last_evaluate.unit_tests_read
    /\ last_evaluate.target = last_generate_unit_test.target

(***************************************************************************)
(* C18: if the test-synthesis model call fails, the synthesizer leaves an  *)
(* empty unit-test list and the task goes on: the following scoring step   *)
(* selects a candidate of the largest cluster (consensus) and the task     *)
(* reaches evaluation with a selected SQL.                                 *)
(***************************************************************************)
C18_FailedSynthesisFallsBack ==
    SynthesisFailed =>
        /\ unit_tests = NoUnitTests
        /\ ScoredAfterSynthesis =>
              /\ Len(StoredRound) = 1
              /\ \E i \in 1..Len(last_evaluate.target) :
                    /\ OpensLargest(last_evaluate.target, 1..Len(last_evaluate.target),
                                    SameOutcome, i)
                    /\ SameOutcome(last_evaluate.target[i], StoredRound[1])
        /\ agent = "done" =>
              /\ Len(evaluation_results.results) > 0
              /\ evaluation_results.final_SQL.exec_res # "error"

\* no rows are handed to get_execution_status: the argument is left out or
\* is an empty list
NoRowsSupplied == fn_rows \in {NoneVal, ListVal(<<>>)}

ReadsThroughMarkerReturnRows ==
    \A i \in 1..Len(reads) :
        (reads[i].prop = "result" /\ c_execution_result = LAZY_RESULT_TOKEN
           /\ \E j \in 1..(i - 1) : reads[j].prop = "set")
            => reads[i].outcome = Returned(ListVal(QueryRows(c_sql)))

(***************************************************************************)
(* C20: a candidate's result cache never holds more rows than the ceiling: *)
(* once a result that exceeds the ceiling was fetched the cache holds the  *)
(* lazy marker instead of the rows, and every later read of                *)
(* execution_result through the marker returns the rows without storing    *)
(* them.                                                                   *)
(***************************************************************************)
C20_CacheWithinCeiling ==
    /\ c_execution_result.t = "list" => ~_is_too_long(c_execution_result)
    /\ (_is_too_long(ListVal(QueryRows(c_sql))) /\ QueryKind(c_sql) = "rows"
          /\ \E i \in 1..Len(reads) : reads[i].prop \in {"result", "set"})
            => c_execution_result = LAZY_RESULT_TOKEN
    /\ ReadsThroughMarkerReturnRows

\* Evaluate ran on a round (it found a last round to score)
EvaluateRanOn(n) ==
    /\ last_evaluate.ran
    /\ ~last_evaluate.early
    /\ Len(last_evaluate.target) = n

(***************************************************************************)
(* C21: when scoring runs on a round with exactly one candidate, that      *)
(* candidate is selected with score 1 and no judging call is issued,       *)
(* whatever the unit-test list contains.                                   *)
(***************************************************************************)
C21_OneCandidateScoresOne ==
    EvaluateRanOn(1) =>
        /\ ~last_evaluate.raised
        /\ last_evaluate.calls = 0
        /\ StoredRound = last_evaluate.target
        /\ scores = <<1>>
        /\ comparison_matrix = << <<1>> >>

\* a single candidate scored while the unit-test list holds tests
C21_Witness ==
    /\ EvaluateRanOn(1)
    /\ last_evaluate.target = <<"q21">>
    /\ unit_tests.set
    /\ unit_tests.tests = <<"ut", "HARD">>
    /\ StoredRound = <<"q21">>

\* the history holds an entry of a successful run of the tool
LoggedSuccess(tool_name) ==
    \E h \in 1..Len(execution_history) :
        /\ execution_history[h].tool_name = tool_name
        /\ execution_history[h].status = "success"

(***************************************************************************)
(* C22: when scoring runs on a round with zero candidates, it stores a     *)
(* synthetic placeholder candidate with score 0 as the round's result, and *)
(* the scoring stage completes as a successful stage whose selected        *)
(* candidate is read back like any other candidate record.                 *)
(***************************************************************************)
C22_ZeroCandidatesPlaceholder ==
    EvaluateRanOn(0) =>
        /\ StoredRound = <<PLACEHOLDER>>
        /\ scores = <<0>>
        /\ ~last_evaluate.raised
        /\ LoggedSuccess("evaluate")
        /\ agent = "done" =>
              evaluation_results.final_SQL.PREDICTED_SQL = PLACEHOLDER

\* what execute_sql gives for the query of the subprocess call
QueryOutcome == CHOOSE o \in execute_sql(sp_sql, FetchAll) : TRUE

(***************************************************************************)
(* C23: subprocess_sql_executor raises TimeoutError exactly when the       *)
(* worker process had not finished executing its query when the timeout    *)
(* elapsed; a worker whose query finished yields its rows (or its          *)
(* exception re-raised), whatever the size of the result; and the worker   *)
(* process is no longer running when the call returns or raises.           *)
(***************************************************************************)
C23_SubprocessOutcome ==
    sp_pc = "done" =>
        /\ IsTimeoutError(sp_outcome) <=> sp_task \in {"executing", "executed", "timed_out"}
        /\ sp_task \in {"done", "blocked_on_put"} => sp_outcome = QueryOutcome
        /\ sp_process \in {"exited", "terminated"}

(***************************************************************************)
(* C24: an exception raised in the worker of execute_sql before the        *)
(* timeout is re-raised to the caller as that same exception, with its     *)
(* message, and execute_sql never returns a value for a query whose worker *)
(* raised: a call that ended by returning had a worker that finished       *)
(* without exception.                                                      *)
(***************************************************************************)
C24_WorkerExceptionReraised ==
    /\ [][(caller_pc = "check" /\ caller_pc' = "done"
             /\ thread_state = "finished" /\ thread_exception # NoExc)
            => call_outcome' = Raised(thread_exception)]_vars
    /\ [](caller_pc = "done" /\ thread_exception # NoExc
            => call_outcome.kind = "raise")
    /\ [](caller_pc = "done" /\ call_outcome.kind = "return"
            => thread_state = "finished" /\ thread_exception = NoExc
               /\ call_outcome.value = thread_result)

C24_Witness ==
    /\ caller_pc = "done"
    /\ ex_sql = "qerrA"
    /\ thread_state = "finished"
    /\ thread_exception = Exc("OperationalError", QueryError("qerrA"))
    /\ call_outcome = Raised(thread_exception)

(***************************************************************************)
(* C25: once execute_sql has raised TimeoutError, the later completion of  *)
(* the abandoned worker delivers nothing: the outcome the caller got stays *)
(* the TimeoutError, the completion changes nothing of the candidate, and  *)
(* the candidate whose getter made the call keeps its empty cache and its  *)
(* unset status, whether the worker completes before or after the getter   *)
(* has ended.                                                              *)
(***************************************************************************)
TimedOutCall == caller_pc = "done" /\ IsTimeoutError(call_outcome)

C25_LateCompletionIgnored ==
    /\ [][TimedOutCall => call_outcome' = call_outcome /\ caller_pc' = "done"]_vars
    /\ [][(TimedOutCall /\ thread_state = "running" /\ thread_state' = "finished")
            => UNCHANGED candVars]_vars
    /\ [](TimedOutCall =>
            /\ c_execution_result = ListVal(<<>>)
            /\ c_execution_status = "None"
            /\ \A i \in 1..Len(reads) : reads[i].outcome = call_outcome)

C25_Witness ==
    /\ TimedOutCall
    /\ thread_state = "finished"
    /\ thread_result = ListVal(QueryRows("q12"))
    /\ c_sql = "q12"
    /\ Len(reads) = 1
    /\ c_execution_result = ListVal(<<>>)

(***************************************************************************)
(* C26: every tool invocation appends exactly one entry to the execution   *)
(* history, behind the entries of the earlier invocations, and the entry   *)
(* names a tool of the agent that made the call and carries the status     *)
(* success or error, whether the tool's work succeeded or raised.          *)
(***************************************************************************)
ToolInvoked ==
    \/ iterations' = iterations + 1
    \/ agent = "evaluation" /\ agent' = "done"

ToolsOf(a) ==
    CASE a = "candidate_generator" -> {"generate_candidate", "revise"}
      [] a = "unit_tester" -> {"generate_unit_test", "evaluate"}
      [] a = "evaluation" -> {"evaluation"}
      [] OTHER -> {}

C26_OneHistoryEntryPerInvocation ==
    [][ToolInvoked =>
         /\ Len(execution_history') = Len(execution_history) + 1
         /\ SubSeq(execution_history', 1, Len(execution_history)) = execution_history
         /\ execution_history'[Len(execution_history')].tool_name \in ToolsOf(agent)
         /\ execution_history'[Len(execution_history')].status \in {"success", "error"}]_vars

(***************************************************************************)
(* C27: a call of async_llm_chain_call returns, for every completion order *)
(* of the threads: ordered_concurrent_function_calls yields exactly one    *)
(* result per submitted call, in the order of the call list, None at the   *)
(* position of each call that raised and the call's own result elsewhere;  *)
(* the results are grouped into exactly sampling_count results per         *)
(* request, in request order.                                              *)
(***************************************************************************)
ExpectedResult(r, k) ==
    IF <<r, k>> \in pool_fails THEN NoneVal ELSE Response(r, k)

C27_OrderedResults ==
    pool_pc = "done" =>
        /\ pool_outcome.kind = "return"
        /\ Len(pool_sorted) = pool_request_count * pool_sampling_count
        /\ \A r \in 1..pool_request_count : \A k \in 1..pool_sampling_count :
              pool_sorted[(r - 1) * pool_sampling_count + k] = ExpectedResult(r, k)
        /\ Len(pool_outcome.value) = pool_request_count
        /\ \A r \in 1..pool_request_count :
              /\ Len(pool_outcome.value[r]) = pool_sampling_count
              /\ \A k \in 1..pool_sampling_count :
                    pool_outcome.value[r][k] = ExpectedResult(r, k)

(***************************************************************************)
(* C28: the evaluation stage reports as final_SQL the evaluation of the    *)
(* last round, in round order, that was evaluated without an error; a      *)
(* later round whose evaluation ended in an error does not replace it.     *)
(***************************************************************************)
EvaluatedWithoutError(result) == result.exec_res # "error"

C28_FinalSQLIsLastErrorFree ==
    agent = "done" =>
        LET results == evaluation_results.results
            ok == {i \in 1..Len(results) : EvaluatedWithoutError(results[i])}
        IN ok # {} =>
              evaluation_results.final_SQL = results[CHOOSE i \in ok : \A j \in ok : j <= i]

(***************************************************************************)
(* C29: an invocation of generate_candidate, revise or evaluate that       *)
(* changes SQL_meta_infos adds exactly one round, under a key that is then *)
(* the last key, and leaves every round stored before it as it was.        *)
(***************************************************************************)
RoundsKept ==
    \A i \in 1..Len(SQL_meta_infos) :
        i <= Len(SQL_meta_infos') /\ SQL_meta_infos'[i] = SQL_meta_infos[i]

C29_RoundsAppendOnly ==
    [][/\ RoundsKept
       /\ SQL_meta_infos' # SQL_meta_infos
             => Len(SQL_meta_infos') = Len(SQL_meta_infos) + 1]_vars

(***************************************************************************)
(* C30: the round Revise stores holds exactly one candidate for each       *)
(* candidate of the input round, at the same position: the repaired SQL at *)
(* the position of the candidate whose SQL was sent in the request that    *)
(* was answered with it, and the original SQL at every other position,     *)
(* also when some requests could not be built or were not answered.        *)
(***************************************************************************)
C30_RepairKeepsPositions ==
    RepairRan =>
        /\ Len(RevisedRound) = Len(last_revise.target)
        /\ \A i \in 1..Len(last_revise.target) : RevisedRound[i] = RepairedSQL(i)

====
